---- MODULE Spec2Model ----
(***************************************************************************)
(* Model of src/ingesta.py: export of MongoDB collections to NDJSON files  *)
(* and their upload to an S3 bucket.                                       *)
(*                                                                         *)
(* Text (str values, paths, keys, file contents) is a sequence of pieces;  *)
(* a piece is a character or a run of characters that contains neither '/' *)
(* nor a newline, so that basename, rstrip('/') and line splitting are     *)
(* computed on the pieces exactly as Python computes them on characters.   *)
(*                                                                         *)
(* A document value is a record [t, v]:                                    *)
(*   t = "int"  -> v an integer            t = "str"  -> v text            *)
(*   t = "oid"  -> v the 12 bytes of a bson.ObjectId                       *)
(*   t = "dict" -> v a sequence of <<key, value>> (insertion order)        *)
(*   t = "list" -> v a sequence of values                                  *)
(* A document (a Python dict) is the sequence of <<key, value>> itself.    *)
(***************************************************************************)
EXTENDS Integers, Sequences, FiniteSets, TLC

VARIABLES
    \* the run of main()
    MONGO_DB, COLLECTIONS, S3_BUCKET, S3_PREFIX,
    mongo, pc, exitStatus, client, next, exported_files, disk,
    results, up, uploads, bucket, reported,
    \* convert_objectid_to_str applied to one document
    doc, once, twice, stage,
    \* upload_to_s3's key for one path and prefix
    local_path, prefix, key, keyStage

runVars == <<MONGO_DB, COLLECTIONS, S3_BUCKET, S3_PREFIX, mongo, pc,
             exitStatus, client, next, exported_files, disk, results, up,
             uploads, bucket, reported>>
normVars == <<doc, once, twice, stage>>
keyVars == <<local_path, prefix, key, keyStage>>
vars == <<runVars, normVars, keyVars>>

\* ------------------------------------------------------------------ bounds
MaxDepth == 2
MaxKeys == 2
MaxDocs == 2
MaxColls == 2
MaxPathLen == 3

\* ---------------------------------------------------------- generic helpers
RECURSIVE Flatten(_)
Flatten(ss) == IF ss = <<>> THEN <<>> ELSE Head(ss) \o Flatten(Tail(ss))

RECURSIVE Text(_)
Text(pieces) == IF pieces = <<>> THEN "" ELSE Head(pieces) \o Text(Tail(pieces))

SeqsUpTo(S, n) == UNION {[1..m -> S] : m \in 0..n}

\* ------------------------------------------------------------ value trees
IntV(n) == [t |-> "int", v |-> n]
StrV(s) == [t |-> "str", v |-> s]
OidV(b) == [t |-> "oid", v |-> b]
DictV(e) == [t |-> "dict", v |-> e]
ListV(s) == [t |-> "list", v |-> s]

HexDigits == <<"0", "1", "2", "3", "4", "5", "6", "7",
               "8", "9", "a", "b", "c", "d", "e", "f">>

\* str(ObjectId): two lower-case hexadecimal digits for each of the bytes
StrOfOid(bytes) ==
    [i \in 1..Len(bytes) |->
        HexDigits[(bytes[i] \div 16) + 1] \o HexDigits[(bytes[i] % 16) + 1]]

RECURSIVE convert_objectid_to_str(_)

\* one iteration of the loop over doc.items()
ConvertItem(item) ==
    LET value == item[2] IN
    IF value.t = "oid" THEN <<item[1], StrV(StrOfOid(value.v))>>
    ELSE IF value.t = "dict"
         THEN <<item[1], DictV(convert_objectid_to_str(value.v))>>
    ELSE IF value.t = "list"
         THEN <<item[1],
                ListV([i \in 1..Len(value.v) |->
                         IF value.v[i].t = "dict"
                         THEN DictV(convert_objectid_to_str(value.v[i].v))
                         ELSE value.v[i]])>>
    ELSE item

\* the loop returns as soon as it has converted one identifier
ConvertReturnsEarly(d) ==
    LET hits == {i \in 1..Len(d) : d[i][2].t = "oid"}
        stop == IF hits = {} THEN Len(d)
                ELSE CHOOSE i \in hits : \A j \in hits : i <= j
    IN [i \in 1..Len(d) |-> IF i <= stop THEN ConvertItem(d[i]) ELSE d[i]]

convert_objectid_to_str(d) == [i \in 1..Len(d) |-> ConvertItem(d[i])]

\* -------- the contract of the normalizer, stated on the tree (not the code)
RECURSIVE HasOid(_)
HasOid(value) ==
    \/ value.t = "oid"
    \/ value.t = "dict" /\ \E i \in 1..Len(value.v) : HasOid(value.v[i][2])
    \/ value.t = "list" /\ \E i \in 1..Len(value.v) : HasOid(value.v[i])

RECURSIVE Normalized(_)
Normalized(value) ==
    IF value.t = "oid" THEN StrV(StrOfOid(value.v))
    ELSE IF value.t = "dict"
         THEN DictV([i \in 1..Len(value.v) |->
                        <<value.v[i][1], Normalized(value.v[i][2])>>])
    ELSE IF value.t = "list"
         THEN ListV([i \in 1..Len(value.v) |-> Normalized(value.v[i])])
    ELSE value

\* ------------------------------------------------- the documents explored
KeyNames == <<"_id", "a", "b", "c">>
Oid1 == OidV(<<80, 127, 31, 119, 188, 248, 108, 215, 153, 67, 144, 17>>)
Leaves == {Oid1, IntV(7)}

\* the values nested at most depth containers deep
RECURSIVE Values(_)
Values(depth) ==
    IF depth = 0 THEN Leaves
    ELSE LET below == Values(depth - 1) IN
         Leaves \cup {DictV(<<<<"a", x>>>>) : x \in below}
                \cup {ListV(<<x>>) : x \in below}

\* the dicts over the keys KeyNames[k..MaxKeys], in that order, values in S
RECURSIVE DocsFrom(_, _)
DocsFrom(k, S) ==
    IF k > MaxKeys THEN {<<>>}
    ELSE DocsFrom(k + 1, S)
         \cup {<<<<KeyNames[k], x>>>> \o rest : x \in S, rest \in DocsFrom(k + 1, S)}

TreeDocs == DocsFrom(1, Values(MaxDepth))

\* ------------------------------------------------------------ json.dumps
\* json.dumps raises TypeError on a value it cannot encode (an ObjectId)
RECURSIVE JsonSerializable(_)
JsonSerializable(value) ==
    /\ value.t # "oid"
    /\ value.t = "dict" => \A i \in 1..Len(value.v) : JsonSerializable(value.v[i][2])
    /\ value.t = "list" => \A i \in 1..Len(value.v) : JsonSerializable(value.v[i])

\* a str is written between quotes with '"', '\' and newline escaped
EscapePiece(c) ==
    IF c = "\n" THEN "\\n" ELSE IF c = "\"" THEN "\\\"" ELSE IF c = "\\" THEN "\\\\" ELSE c

JsonString(s) == <<"\"">> \o [i \in 1..Len(s) |-> EscapePiece(s[i])] \o <<"\"">>

RECURSIVE JoinComma(_)
JoinComma(parts) ==
    IF parts = <<>> THEN <<>>
    ELSE IF Len(parts) = 1 THEN parts[1]
    ELSE parts[1] \o <<", ">> \o JoinComma(Tail(parts))

RECURSIVE JsonValue(_)
JsonValue(value) ==
    IF value.t = "int" THEN <<ToString(value.v)>>
    ELSE IF value.t = "str" THEN JsonString(value.v)
    ELSE IF value.t = "dict"
         THEN <<"{">> \o JoinComma([i \in 1..Len(value.v) |->
                                       JsonString(<<value.v[i][1]>>) \o <<": ">>
                                       \o JsonValue(value.v[i][2])])
                      \o <<"}">>
    ELSE <<"[">> \o JoinComma([i \in 1..Len(value.v) |-> JsonValue(value.v[i])])
                 \o <<"]">>

\* json.dumps(doc, ensure_ascii=False) of a document that can be encoded
json_dumps(d) == JsonValue(DictV(d))

\* the lines of a text, as reading the file line by line yields them
RECURSIVE Lines(_)
Lines(text) ==
    IF text = <<>> THEN <<>>
    ELSE LET ends == {i \in 1..Len(text) : text[i] = "\n"} IN
         IF ends = {} THEN <<text>>
         ELSE LET e == CHOOSE i \in ends : \A j \in ends : i <= j IN
              <<SubSeq(text, 1, e - 1)>> \o Lines(SubSeq(text, e + 1, Len(text)))

\* ------------------------------------------------------------------ paths
\* os.path.basename: what follows the last '/'
Basename(path) ==
    LET slashes == {i \in 1..Len(path) : path[i] = "/"} IN
    IF slashes = {} THEN path
    ELSE SubSeq(path, (CHOOSE i \in slashes : \A j \in slashes : j <= i) + 1, Len(path))

\* str.rstrip('/'): without any of the '/' it ends with
RECURSIVE RStripSlash(_)
RStripSlash(s) ==
    IF s # <<>> /\ s[Len(s)] = "/" THEN RStripSlash(SubSeq(s, 1, Len(s) - 1)) ELSE s

\* os.path.join of a directory and a file name
PathJoin(dir, name) ==
    IF name # <<>> /\ name[1] = "/" THEN name
    ELSE IF dir = <<>> \/ dir[Len(dir)] = "/" THEN dir \o name
    ELSE dir \o <<"/">> \o name

\* the prefix is joined as it is, a '/' it ends with included
UploadKeyKeepsSlash(path, pre) ==
    IF pre # <<>> THEN pre \o <<"/">> \o Basename(path) ELSE Basename(path)

\* the key upload_to_s3 uploads local_path to
UploadKey(path, pre) ==
    IF pre # <<>> THEN RStripSlash(pre) \o <<"/">> \o Basename(path) ELSE Basename(path)

OUTPUT_DIR == <<"/", "app", "/", "out">>
TIMESTAMP == "20240101T000000Z"

OutPath(collection_name) ==
    PathJoin(OUTPUT_DIR, <<collection_name, "_", TIMESTAMP, ".ndjson">>)

\* ------------------------------------------------ export of one collection
\* the lines are written without the newline that ends them
WrittenTextNoNewline(docs) ==
    LET conv == [i \in 1..Len(docs) |-> convert_objectid_to_str(docs[i])]
        bad == {i \in 1..Len(docs) : ~JsonSerializable(DictV(conv[i]))}
        n == IF bad = {} THEN Len(docs)
             ELSE (CHOOSE i \in bad : \A j \in bad : i <= j) - 1
    IN Flatten([i \in 1..n |-> json_dumps(conv[i])])

\* the text the loop of f.write calls leaves in the file: one line for each
\* document before the first one json.dumps cannot encode
WrittenText(docs) ==
    LET conv == [i \in 1..Len(docs) |-> convert_objectid_to_str(docs[i])]
        bad == {i \in 1..Len(docs) : ~JsonSerializable(DictV(conv[i]))}
        n == IF bad = {} THEN Len(docs)
             ELSE (CHOOSE i \in bad : \A j \in bad : i <= j) - 1
    IN Flatten([i \in 1..n |-> json_dumps(conv[i]) \o <<"\n">>])

\* an empty collection is exported like any other, to an empty file
ExportWithoutEmptyCheck(collection_name, docs) ==
    [path |-> OutPath(collection_name), opened |-> TRUE, text |-> WrittenText(docs),
     raised |-> \E i \in 1..Len(docs) :
                   ~JsonSerializable(DictV(convert_objectid_to_str(docs[i])))]

\* the outcome of export_collection_to_ndjson once find({}) has returned docs:
\* the path returned, whether a file was opened, its text, whether it raised
export_collection_to_ndjson(collection_name, docs) ==
    IF docs = <<>>
    THEN [path |-> <<>>, opened |-> FALSE, text |-> <<>>, raised |-> FALSE]
    ELSE LET conv == [i \in 1..Len(docs) |-> convert_objectid_to_str(docs[i])]
         IN [path |-> OutPath(collection_name), opened |-> TRUE,
             text |-> WrittenText(docs),
             raised |-> \E i \in 1..Len(docs) : ~JsonSerializable(DictV(conv[i]))]

\* ------------------------------------------------------- the run of main()
CollNames == {"users", "orders"}

\* documents of the store: two that normalize to JSON, one that does not
DocA == <<<<"_id", Oid1>>, <<"a", StrV(<<"x", "\n">>)>>>>
DocB == <<<<"_id", IntV(7)>>, <<"a", ListV(<<DictV(<<<<"a", Oid1>>>>)>>)>>>>
DocC == <<<<"a", ListV(<<Oid1>>)>>>>
RunDocs == {DocA, DocB, DocC}

\* exit statuses: main returning, sys.exit(1), sys.exit(2), and the status
\* the interpreter gives an exception that nothing catches; Running stands
\* for a process that has not exited
ExitOk == 0
ExitConfig == 1
ExitNoData == 2
ExitUncaught == 1
Running == -1

UploadOutcomes == {"ok", "NoCredentialsError", "ClientError", "other"}

PutFile(files, name, text) ==
    [n \in DOMAIN files \cup {name} |-> IF n = name THEN text ELSE files[n]]

Abort(status) ==
    /\ pc' = "Aborted"
    /\ exitStatus' = status

RunInit ==
    /\ MONGO_DB \in {"", "shop"}
    /\ COLLECTIONS \in SeqsUpTo(CollNames, MaxColls)
    /\ S3_BUCKET \in {"", "bkt"}
    /\ S3_PREFIX \in {<<>>, <<"backups", "/">>}
    /\ mongo \in [CollNames -> SeqsUpTo(RunDocs, MaxDocs)]
    \* a run that stops at the checks never reads the store: the larger
    \* stores are explored with the configurations that reach it
    /\ (MONGO_DB = "" \/ COLLECTIONS = <<>> \/ S3_BUCKET = "")
          => \A c \in CollNames : Len(mongo[c]) <= 1
    /\ pc = "Validating"
    /\ exitStatus = Running
    /\ client = FALSE
    /\ next = 1
    /\ exported_files = <<>>
    /\ disk = <<>>
    /\ results = <<>>
    /\ up = 1
    /\ uploads = <<>>
    /\ bucket = <<>>
    /\ reported = FALSE

\* the bucket is only checked once the client exists
ValidateBucketLate ==
    /\ pc = "Validating"
    /\ IF MONGO_DB = "" \/ COLLECTIONS = <<>>
       THEN Abort(ExitConfig) /\ UNCHANGED client
       ELSE /\ client' = TRUE
            /\ IF S3_BUCKET = ""
               THEN Abort(ExitConfig)
               ELSE pc' = "Exporting" /\ UNCHANGED exitStatus
    /\ UNCHANGED <<MONGO_DB, COLLECTIONS, S3_BUCKET, S3_PREFIX, mongo, next,
                   exported_files, disk, results, up, uploads, bucket, reported>>

\* main, lines 123-135: the checks of the configuration, then the client
Validate ==
    /\ pc = "Validating"
    /\ IF MONGO_DB = "" \/ COLLECTIONS = <<>>
       THEN Abort(ExitConfig) /\ UNCHANGED client
       ELSE IF S3_BUCKET = ""
       THEN Abort(ExitConfig) /\ UNCHANGED client
       ELSE /\ client' = TRUE
            /\ pc' = "Exporting"
            /\ UNCHANGED exitStatus
    /\ UNCHANGED <<MONGO_DB, COLLECTIONS, S3_BUCKET, S3_PREFIX, mongo, next,
                   exported_files, disk, results, up, uploads, bucket, reported>>

\* the exception is caught and the loop goes on with the next collection
ExportRaisesSwallowed(entry) ==
    /\ results' = Append(results, entry)
    /\ next' = next + 1
    /\ UNCHANGED <<pc, exitStatus, exported_files>>

\* line 139: nothing catches what export_collection_to_ndjson raises
ExportRaises(entry) ==
    /\ results' = Append(results, entry)
    /\ Abort(ExitUncaught)
    /\ UNCHANGED <<next, exported_files>>

\* main, lines 138-141: one iteration of the loop over COLLECTIONS
ExportNext ==
    /\ pc = "Exporting"
    /\ next <= Len(COLLECTIONS)
    /\ LET coll == COLLECTIONS[next] IN
       \E found \in BOOLEAN :
          IF ~found
          THEN \* coll.find({}) raises: the store cannot be read
               /\ ExportRaises([collection |-> coll, path |-> <<>>,
                                count |-> 0, outcome |-> "store_error"])
               /\ UNCHANGED disk
          ELSE LET r == export_collection_to_ndjson(coll, mongo[coll]) IN
               /\ disk' = IF r.opened THEN PutFile(disk, r.path, r.text) ELSE disk
               /\ IF r.raised
                  THEN ExportRaises([collection |-> coll, path |-> r.path,
                                     count |-> Len(mongo[coll]),
                                     outcome |-> "serialize_error"])
                  ELSE /\ results' = Append(results,
                                        [collection |-> coll, path |-> r.path,
                                         count |-> Len(mongo[coll]),
                                         outcome |-> IF r.path = <<>> THEN "skipped"
                                                     ELSE "exported"])
                       /\ exported_files' = IF r.path # <<>>
                                            THEN Append(exported_files, r.path)
                                            ELSE exported_files
                       /\ next' = next + 1
                       /\ UNCHANGED <<pc, exitStatus>>
    /\ UNCHANGED <<MONGO_DB, COLLECTIONS, S3_BUCKET, S3_PREFIX, mongo, client,
                   up, uploads, bucket, reported>>

\* the loop over exported_files is entered whatever was exported
CheckExportedMissing ==
    /\ pc = "Exporting"
    /\ next > Len(COLLECTIONS)
    /\ pc' = "Uploading"
    /\ UNCHANGED <<MONGO_DB, COLLECTIONS, S3_BUCKET, S3_PREFIX, mongo, client,
                   next, exported_files, disk, results, up, uploads, bucket,
                   reported, exitStatus>>

\* main, lines 143-145: nothing exported ends the run with status 2
CheckExported ==
    /\ pc = "Exporting"
    /\ next > Len(COLLECTIONS)
    /\ IF exported_files = <<>>
       THEN Abort(ExitNoData)
       ELSE pc' = "Uploading" /\ UNCHANGED exitStatus
    /\ UNCHANGED <<MONGO_DB, COLLECTIONS, S3_BUCKET, S3_PREFIX, mongo, client,
                   next, exported_files, disk, results, up, uploads, bucket,
                   reported>>

\* the exception is printed and the loop goes on with the next file
UploadRaisesSwallowed ==
    /\ up' = up + 1
    /\ UNCHANGED <<pc, exitStatus, bucket>>

\* lines 111-116 and 148: upload_to_s3 re-raises and main does not catch
UploadRaises ==
    /\ Abort(ExitUncaught)
    /\ UNCHANGED <<bucket, up>>

\* main, lines 147-148: one iteration of the loop over exported_files
UploadNext ==
    /\ pc = "Uploading"
    /\ up <= Len(exported_files)
    /\ LET path == exported_files[up]
           k == UploadKey(path, S3_PREFIX)
       IN \E outcome \in UploadOutcomes :
            /\ uploads' = Append(uploads, [path |-> path, key |-> k,
                                           outcome |-> outcome])
            /\ IF outcome = "ok"
               THEN /\ bucket' = PutFile(bucket, k, disk[path])
                    /\ up' = up + 1
                    /\ UNCHANGED <<pc, exitStatus>>
               ELSE UploadRaises
    /\ UNCHANGED <<MONGO_DB, COLLECTIONS, S3_BUCKET, S3_PREFIX, mongo, client,
                   next, exported_files, disk, results, reported>>

\* the loop over exported_files stops one file short
FinishOneShort ==
    /\ pc = "Uploading"
    /\ up >= Len(exported_files)
    /\ pc' = "Done"
    /\ exitStatus' = ExitOk
    /\ UNCHANGED <<MONGO_DB, COLLECTIONS, S3_BUCKET, S3_PREFIX, mongo, client,
                   next, exported_files, disk, results, up, uploads, bucket,
                   reported>>

\* main, line 150: every file is uploaded, main returns
Finish ==
    /\ pc = "Uploading"
    /\ up > Len(exported_files)
    /\ pc' = "Done"
    /\ exitStatus' = ExitOk
    /\ UNCHANGED <<MONGO_DB, COLLECTIONS, S3_BUCKET, S3_PREFIX, mongo, client,
                   next, exported_files, disk, results, up, uploads, bucket,
                   reported>>

\* lines 157-159: the finally clause prints the duration on every path
Report ==
    /\ pc \in {"Done", "Aborted"}
    /\ ~reported
    /\ reported' = TRUE
    /\ UNCHANGED <<MONGO_DB, COLLECTIONS, S3_BUCKET, S3_PREFIX, mongo, pc,
                   exitStatus, client, next, exported_files, disk, results, up,
                   uploads, bucket>>

Init ==
    /\ RunInit
    /\ doc = <<>> /\ once = <<>> /\ twice = <<>> /\ stage = "off"
    /\ local_path = <<>> /\ prefix = <<>> /\ key = <<>> /\ keyStage = "off"

Next ==
    \/ Validate /\ UNCHANGED <<normVars, keyVars>>
    \/ ExportNext /\ UNCHANGED <<normVars, keyVars>>
    \/ CheckExported /\ UNCHANGED <<normVars, keyVars>>
    \/ UploadNext /\ UNCHANGED <<normVars, keyVars>>
    \/ Finish /\ UNCHANGED <<normVars, keyVars>>
    \/ Report /\ UNCHANGED <<normVars, keyVars>>

Spec == Init /\ [][Next]_vars

\* ------------------------------- convert_objectid_to_str on one document
NormInit ==
    /\ doc \in TreeDocs
    /\ once = <<>>
    /\ twice = <<>>
    /\ stage = "input"

\* the call of line 92
NormalizeOnce ==
    /\ stage = "input"
    /\ once' = convert_objectid_to_str(doc)
    /\ stage' = "once"
    /\ UNCHANGED <<doc, twice>>

\* a second call, on the document the first one returned
NormalizeAgain ==
    /\ stage = "once"
    /\ twice' = convert_objectid_to_str(once)
    /\ stage' = "twice"
    /\ UNCHANGED <<doc, once>>

NormNext ==
    \/ NormalizeOnce /\ UNCHANGED <<runVars, keyVars>>
    \/ NormalizeAgain /\ UNCHANGED <<runVars, keyVars>>

NormSpecInit ==
    /\ NormInit
    /\ MONGO_DB = "" /\ COLLECTIONS = <<>> /\ S3_BUCKET = "" /\ S3_PREFIX = <<>>
    /\ mongo = <<>> /\ pc = "off" /\ exitStatus = Running /\ client = FALSE
    /\ next = 1 /\ exported_files = <<>> /\ disk = <<>> /\ results = <<>>
    /\ up = 1 /\ uploads = <<>> /\ bucket = <<>> /\ reported = FALSE
    /\ local_path = <<>> /\ prefix = <<>> /\ key = <<>> /\ keyStage = "off"

NormSpec == NormSpecInit /\ [][NormNext]_vars

\* ------------------------------------- upload_to_s3's key on one path
PathPieces == {"/", "out", "users_20240101T000000Z.ndjson"}
PrefixPieces == {"/", "backups"}

KeyInit ==
    /\ local_path \in SeqsUpTo(PathPieces, MaxPathLen)
    /\ prefix \in SeqsUpTo(PrefixPieces, MaxPathLen)
    /\ key = <<>>
    /\ keyStage = "input"

\* upload_to_s3, lines 104-106
ComputeKey ==
    /\ keyStage = "input"
    /\ key' = UploadKey(local_path, prefix)
    /\ keyStage' = "done"
    /\ UNCHANGED <<local_path, prefix>>

KeyNext == ComputeKey /\ UNCHANGED <<runVars, normVars>>

KeySpecInit ==
    /\ KeyInit
    /\ MONGO_DB = "" /\ COLLECTIONS = <<>> /\ S3_BUCKET = "" /\ S3_PREFIX = <<>>
    /\ mongo = <<>> /\ pc = "off" /\ exitStatus = Running /\ client = FALSE
    /\ next = 1 /\ exported_files = <<>> /\ disk = <<>> /\ results = <<>>
    /\ up = 1 /\ uploads = <<>> /\ bucket = <<>> /\ reported = FALSE
    /\ doc = <<>> /\ once = <<>> /\ twice = <<>> /\ stage = "off"

KeySpec == KeySpecInit /\ [][KeyNext]_vars

\* ================================================================ claims
BadConfig == MONGO_DB = "" \/ COLLECTIONS = <<>> \/ S3_BUCKET = ""
Terminal == pc \in {"Done", "Aborted"}
ExportFailed == \E i \in DOMAIN results :
                   results[i].outcome \in {"store_error", "serialize_error"}
UploadFailed == \E k \in DOMAIN uploads : uploads[k].outcome # "ok"
EndsWithNewline(text) == text # <<>> /\ text[Len(text)] = "\n"

\* C1: for every document value tree, convert_objectid_to_str returns the
\* tree in which every Opaque Identifier is replaced by its string form and
\* every other value is unchanged, so that no Opaque Identifier remains in
\* the result (identifiers that are elements of a sequence included).
C1_EveryIdentifierConverted ==
    stage \in {"once", "twice"} =>
        /\ once = Normalized(DictV(doc)).v
        /\ ~HasOid(DictV(once))

\* C2: whenever the database name, the collection list or the bucket is
\* empty, the run ends in Aborted with exit status 1, and at every point of
\* the run no client was opened, no collection exported, no upload attempted.
C2_ConfigErrorFailsFast ==
    BadConfig =>
        /\ ~client
        /\ results = <<>> /\ exported_files = <<>> /\ disk = <<>>
        /\ uploads = <<>> /\ bucket = <<>>
        /\ pc \in {"Validating", "Aborted"}
        /\ pc = "Validating" => ENABLED Validate
        /\ pc = "Aborted" => exitStatus = 1

C2_Witness ==
    /\ MONGO_DB # "" /\ COLLECTIONS # <<>> /\ S3_BUCKET = ""
    /\ \E c \in CollNames : mongo[c] # <<>>
    /\ pc = "Aborted" /\ exitStatus = 1 /\ reported

\* C3: with a valid configuration and every configured collection returning
\* zero documents, all collections are processed, then the run ends in
\* Aborted with exit status 2 (not 1); no file is written, nothing uploaded.
AllEmpty ==
    /\ ~BadConfig
    /\ \A i \in DOMAIN COLLECTIONS : mongo[COLLECTIONS[i]] = <<>>
    /\ \A i \in DOMAIN results : results[i].outcome # "store_error"

C3_AllEmptyExitsTwo ==
    AllEmpty =>
        /\ disk = <<>> /\ exported_files = <<>>
        /\ uploads = <<>> /\ bucket = <<>>
        /\ pc \in {"Validating", "Exporting", "Aborted"}
        /\ pc = "Exporting" => ENABLED (ExportNext \/ CheckExported)
        /\ pc = "Aborted" =>
              /\ exitStatus = 2 /\ exitStatus # ExitConfig
              /\ Len(results) = Len(COLLECTIONS)
              /\ \A i \in DOMAIN results :
                    /\ results[i].collection = COLLECTIONS[i]
                    /\ results[i].outcome = "skipped"

C3_Witness ==
    /\ AllEmpty /\ Len(COLLECTIONS) >= 2 /\ COLLECTIONS[1] # COLLECTIONS[2]
    /\ pc = "Aborted" /\ exitStatus = 2 /\ Len(results) = Len(COLLECTIONS)
    /\ reported

\* C4: when the upload of the k-th collected file fails, no upload is
\* attempted for a later file, the run is Aborted with a non-zero exit status
\* and is never Done, and files 1..k-1 are still in the bucket.
C4_UploadFailureIsFatal ==
    \A k \in DOMAIN uploads :
        uploads[k].outcome # "ok" =>
            /\ k = Len(uploads)
            /\ uploads[k].path = exported_files[k]
            /\ pc = "Aborted"
            /\ exitStatus \notin {Running, 0}
            /\ \A m \in 1..(k - 1) :
                  /\ uploads[m].outcome = "ok"
                  /\ uploads[m].path = exported_files[m]
                  /\ uploads[m].key \in DOMAIN bucket
                  /\ bucket[uploads[m].key] = disk[uploads[m].path]

C4_Witness ==
    /\ Len(uploads) = 2 /\ Len(exported_files) >= 2
    /\ uploads[1].outcome = "ok"
    /\ uploads[2].outcome \in {"NoCredentialsError", "ClientError"}
    /\ uploads[1].key \in DOMAIN bucket
    /\ pc = "Aborted" /\ reported

\* C5: a collection that returns zero documents is skipped: its result has an
\* empty path, no file is written for it, the run goes on with the next
\* collection, and no upload is ever attempted for it.
C5_EmptyCollectionSkipped ==
    \A i \in DOMAIN results :
        (results[i].outcome # "store_error" /\ mongo[results[i].collection] = <<>>) =>
            LET p == OutPath(results[i].collection) IN
            /\ results[i].path = <<>> /\ results[i].count = 0
            /\ results[i].outcome = "skipped"
            /\ p \notin DOMAIN disk
            /\ next > i
            /\ (i < Len(COLLECTIONS) /\ Len(results) = i) =>
                  (pc = "Exporting" /\ ENABLED ExportNext)
            /\ \A j \in DOMAIN exported_files : exported_files[j] # p
            /\ \A k \in DOMAIN uploads : uploads[k].path # p
            /\ UploadKey(p, S3_PREFIX) \notin DOMAIN bucket

C5_Witness ==
    /\ Len(results) >= 2
    /\ results[1].outcome = "skipped" /\ results[2].outcome = "exported"
    /\ pc = "Done" /\ Len(uploads) = 1

\* C6: the run is Done (exit status 0) only if every configured collection
\* was processed and the file of every non-empty one was written completely
\* and uploaded; conversely a run with a valid configuration, a non-empty
\* collection and no export or upload failure does end Done.
C6_DoneIffAllTransferred ==
    /\ pc = "Done" =>
          /\ exitStatus = 0
          /\ Len(results) = Len(COLLECTIONS)
          /\ \A i \in DOMAIN results :
                LET c == COLLECTIONS[i] IN
                /\ results[i].collection = c
                /\ results[i].outcome \in {"skipped", "exported"}
                /\ mongo[c] # <<>> =>
                      /\ OutPath(c) \in DOMAIN disk
                      /\ Len(Lines(disk[OutPath(c)])) = Len(mongo[c])
                      /\ EndsWithNewline(disk[OutPath(c)])
                      /\ \E k \in DOMAIN uploads :
                            /\ uploads[k].path = OutPath(c)
                            /\ uploads[k].outcome = "ok"
                            /\ uploads[k].key \in DOMAIN bucket
                            /\ bucket[uploads[k].key] = disk[OutPath(c)]
    /\ (/\ ~BadConfig
        /\ \E i \in DOMAIN COLLECTIONS : mongo[COLLECTIONS[i]] # <<>>
        /\ ~ExportFailed /\ ~UploadFailed) =>
          /\ Terminal => pc = "Done"
          /\ ~Terminal => ENABLED Next

C6_Witness ==
    /\ pc = "Done" /\ exitStatus = 0 /\ reported
    /\ Len(results) >= 2
    /\ \E i \in DOMAIN results : results[i].outcome = "skipped"
    /\ \E i \in DOMAIN results : results[i].outcome = "exported"
    /\ \E c \in CollNames : Len(mongo[c]) >= 2
    /\ Len(uploads) = 1

\* C7: for every non-empty collection whose export completes, the file has
\* exactly one line per retrieved document, and line i is the serialization
\* of the normalized i-th document, in retrieval order.
C7_OneLinePerDocument ==
    \A i \in DOMAIN results :
        results[i].outcome = "exported" =>
            LET docs == mongo[results[i].collection]
                ls == Lines(disk[results[i].path])
            IN /\ Len(ls) = Len(docs)
               /\ results[i].count = Len(docs)
               /\ EndsWithNewline(disk[results[i].path])
               /\ \A j \in 1..Len(docs) :
                     /\ ls[j] = json_dumps(Normalized(DictV(docs[j])).v)
                     /\ ~HasOid(DictV(convert_objectid_to_str(docs[j])))

C7_Witness ==
    \E i \in DOMAIN results :
        /\ results[i].outcome = "exported"
        /\ Len(mongo[results[i].collection]) >= 2
        /\ mongo[results[i].collection][1] # mongo[results[i].collection][2]
        /\ Len(Lines(disk[results[i].path])) = Len(mongo[results[i].collection])

\* C8: the key is the basename of the path when the prefix is empty, else the
\* prefix without the slashes it ends with, one '/', and the basename;
\* "backups/" and "users_20240101T000000Z.ndjson" give
\* "backups/users_20240101T000000Z.ndjson".
IsBasenameOf(b, path) ==
    \E n \in 0..Len(path) :
        /\ b = SubSeq(path, n + 1, Len(path))
        /\ \A i \in DOMAIN b : b[i] # "/"
        /\ n > 0 => path[n] = "/"

IsStrippedOf(st, pre) ==
    \E n \in 0..Len(pre) :
        /\ st = SubSeq(pre, 1, n)
        /\ \A i \in (n + 1)..Len(pre) : pre[i] = "/"
        /\ n > 0 => pre[n] # "/"

C8_UploadKey ==
    keyStage = "done" =>
        /\ prefix = <<>> => IsBasenameOf(key, local_path)
        /\ prefix # <<>> =>
              \E n \in 1..Len(key) :
                 /\ key[n] = "/"
                 /\ IsStrippedOf(SubSeq(key, 1, n - 1), prefix)
                 /\ IsBasenameOf(SubSeq(key, n + 1, Len(key)), local_path)
        /\ (Text(prefix) = "backups/" /\ Text(local_path) = "users_20240101T000000Z.ndjson")
              => Text(key) = "backups/users_20240101T000000Z.ndjson"

C8_Witness ==
    /\ keyStage = "done"
    /\ prefix = <<"backups", "/">>
    /\ local_path = <<"users_20240101T000000Z.ndjson">>
    /\ Text(key) = "backups/users_20240101T000000Z.ndjson"

\* C9: convert_objectid_to_str is idempotent: applying it twice yields the
\* same tree as applying it once.
C9_Idempotent == stage = "twice" => twice = once

C9_Witness ==
    /\ stage = "twice"
    /\ Len(doc) >= 2
    /\ once # doc
    /\ \A i \in DOMAIN doc : HasOid(doc[i][2])

\* C10: no upload is attempted until every configured collection has been
\* exported: when the export of a collection fails, the run terminates with
\* zero upload attempts; neither the partial file nor the complete files of
\* earlier collections are uploaded.
C10_NoUploadBeforeAllExported ==
    /\ uploads # <<>> =>
          /\ Len(results) = Len(COLLECTIONS)
          /\ \A i \in DOMAIN results :
                results[i].outcome \in {"skipped", "exported"}
    /\ ExportFailed =>
          /\ uploads = <<>> /\ bucket = <<>>
          /\ pc = "Aborted" /\ exitStatus \notin {Running, 0}

C10_Witness ==
    /\ Len(results) = 2
    /\ results[1].outcome = "exported"
    /\ results[2].outcome = "serialize_error"
    /\ results[1].path \in DOMAIN disk
    /\ results[2].path \in DOMAIN disk /\ disk[results[2].path] # <<>>
    /\ results[1].path # results[2].path
    /\ uploads = <<>> /\ pc = "Aborted" /\ reported

====
